---- MODULE Spec2Model ----
(***************************************************************************)
(* Model of hp_lto_max_temp.go: one run of main (argument handling, open,  *)
(* SEND DIAGNOSTIC, RECEIVE DIAGNOSTIC RESULTS, decode, report) and the    *)
(* pure decoding functions it calls.                                       *)
(*                                                                         *)
(* Bytes are integers 0..255, byte slices and strings are sequences of     *)
(* bytes (index 1 of a sequence is index 0 of the slice).  Integers that   *)
(* strconv produces are kept as base-16 numerals (sequences of digit       *)
(* values without leading zeros), so that 64-bit values are exact.         *)
(***************************************************************************)
EXTENDS Integers, Sequences, FiniteSets, TLC

VARIABLES pc, argKind, verbose, fileOpen, deferred, closedByDefer,
          calls, dataIn, temperatureHex, temperatureDecimal, decoded,
          stdout, exitCode, failure,
          fnPc, fnData, fnRes, fnDec

vars == <<pc, argKind, verbose, fileOpen, deferred, closedByDefer,
          calls, dataIn, temperatureHex, temperatureDecimal, decoded,
          stdout, exitCode, failure, fnPc, fnData, fnRes, fnDec>>

mainVars == <<pc, argKind, verbose, fileOpen, deferred, closedByDefer,
              calls, dataIn, temperatureHex, temperatureDecimal, decoded,
              stdout, exitCode, failure>>

fnVars == <<fnPc, fnData, fnRes, fnDec>>

----------------------------------------------------------------------------
(* Program constants *)

DATA_IN_LEN == 68

\* faulty variant: the guard off by one
MinDataLen_short == 30 - 1

\* the length guard of extractAndConvertTemperature: len(data) < 30
MinDataLen == 30

\* first index of the temperature field (loop start)
FieldStart == 22

\* loop bound of the temperature field (i < 30)
FieldEnd == 30

\* host_status value the Linux sg driver stores when a command times out
DID_TIME_OUT == 3

(* Bounds of the model *)

\* page lengths tried around the end of the field: FieldEnd-MaxSlack .. FieldEnd+MaxSlack
MaxSlack == 2

----------------------------------------------------------------------------
(* Bytes and strings *)

\* ASCII pairs the device may put into one 2-byte group of the field
SamplePairs ==
    { <<48, 48>>,    \* "00"
      <<48, 56>>,    \* "08"
      <<48, 52>>,    \* "04"
      <<48, 49>>,    \* "01"
      <<51, 48>>,    \* "30"
      <<102, 70>>,   \* "fF"
      <<48, 71>>,    \* "0G"  second byte not hexadecimal
      <<103, 48>> }  \* "g0"  first byte not hexadecimal

ZeroBytes(n) == [i \in 1..n |-> 0]

\* a page of n >= FieldEnd bytes whose field holds the four pairs, zero elsewhere
PageWith(n, p1, p2, p3, p4) ==
    [i \in 1..n |->
        IF i = FieldStart + 1 THEN p1[1] ELSE IF i = FieldStart + 2 THEN p1[2]
        ELSE IF i = FieldStart + 3 THEN p2[1] ELSE IF i = FieldStart + 4 THEN p2[2]
        ELSE IF i = FieldStart + 5 THEN p3[1] ELSE IF i = FieldStart + 6 THEN p3[2]
        ELSE IF i = FieldStart + 7 THEN p4[1] ELSE IF i = FieldStart + 8 THEN p4[2]
        ELSE 0]

PagesOfLen(n) ==
    { PageWith(n, p1, p2, p3, p4) : p1 \in SamplePairs, p2 \in SamplePairs,
                                    p3 \in SamplePairs, p4 \in SamplePairs }

IsHexChar(c) == c \in 48..57 \/ c \in 65..70 \/ c \in 97..102

IsUpperHexChar(c) == c \in 48..57 \/ c \in 65..70

----------------------------------------------------------------------------
(* strconv and fmt, as far as the program uses them.  A number is a base-16 *)
(* numeral: the sequence of its digit values, most significant first,      *)
(* without leading zeros (<<>> is 0).                                      *)

\* lower(c) of strconv: c | ('x' - 'X')
lower(c) == IF (c \div 32) % 2 = 0 THEN c + 32 ELSE c

\* the digit switch of strconv.ParseUint; -1 stands for the default branch
digitOf(c) ==
    IF c \in 48..57 THEN c - 48
    ELSE IF lower(c) \in 97..122 THEN lower(c) - 97 + 10
    ELSE -1

\* faulty variant: the comparison with the base left out
badDigit_anyLetter(d, base) == d = -1

\* ParseUint rejects a character that is no digit, or a digit d >= base
badDigit(d, base) == d = -1 \/ d >= base

\* n*16 + d on numerals
MulAdd16(n, d) == IF n = <<>> /\ d = 0 THEN <<>> ELSE Append(n, d)

\* number of significant bits of a numeral
BitLen(n) ==
    IF n = <<>> THEN 0
    ELSE 4 * (Len(n) - 1) +
         (IF n[1] >= 8 THEN 4 ELSE IF n[1] >= 4 THEN 3 ELSE IF n[1] >= 2 THEN 2 ELSE 1)

\* value of a numeral short enough for the checker's integers
RECURSIVE NatOf(_)
NatOf(n) == IF n = <<>> THEN 0 ELSE 16 * NatOf(SubSeq(n, 1, Len(n) - 1)) + n[Len(n)]

\* the loop of strconv.ParseUint for base 16: cutoff is 2^60, maxVal 2^bitSize - 1
RECURSIVE ParseUintLoop(_, _, _, _, _)
ParseUintLoop(s, i, n, base, bitSize) ==
    IF i > Len(s) THEN [err |-> "nil", val |-> n]
    ELSE LET d == digitOf(s[i]) IN
         IF badDigit(d, base) THEN [err |-> "syntax", val |-> <<>>]
         ELSE IF BitLen(n) > 60 THEN [err |-> "range", val |-> <<>>]
         ELSE LET n1 == MulAdd16(n, d) IN
              IF BitLen(n1) > bitSize THEN [err |-> "range", val |-> <<>>]
              ELSE ParseUintLoop(s, i + 1, n1, base, bitSize)

ParseUint(s, base, bitSize) ==
    IF s = <<>> THEN [err |-> "syntax", val |-> <<>>]
    ELSE ParseUintLoop(s, 1, <<>>, base, bitSize)

\* the numeral 2^(bitSize-1) has one significant digit 8 (bitSize a multiple of 4)
IsCutoff(n, bitSize) ==
    /\ BitLen(n) = bitSize
    /\ n[1] = 8
    /\ \A k \in 2..Len(n) : n[k] = 0

ParseInt(s, base, bitSize) ==
    IF s = <<>> THEN [err |-> "syntax", neg |-> FALSE, val |-> <<>>]
    ELSE LET neg  == s[1] = 45
             body == IF s[1] = 43 \/ s[1] = 45 THEN Tail(s) ELSE s
             un   == ParseUint(body, base, bitSize)
         IN  IF un.err = "syntax" THEN [err |-> "syntax", neg |-> FALSE, val |-> <<>>]
             ELSE IF un.err = "range" THEN [err |-> "range", neg |-> neg, val |-> <<>>]
             ELSE IF ~neg /\ BitLen(un.val) >= bitSize
                  THEN [err |-> "range", neg |-> neg, val |-> <<>>]
             ELSE IF neg /\ BitLen(un.val) >= bitSize /\ ~IsCutoff(un.val, bitSize)
                  THEN [err |-> "range", neg |-> neg, val |-> <<>>]
             ELSE [err |-> "nil", neg |-> neg /\ un.val # <<>>, val |-> un.val]

HexChar(d) == IF d < 10 THEN 48 + d ELSE 55 + d

\* fmt.Sprintf("%X", v): upper-case digits, no padding, "0" for zero
SprintfX(n) == IF n = <<>> THEN <<48>> ELSE [k \in 1..Len(n) |-> HexChar(n[k])]

----------------------------------------------------------------------------
(* The decoder *)

\* the for loop of extractAndConvertTemperature; reads collects the slice
\* indices (0-based) the loop has accessed
RECURSIVE extractLoop(_, _, _, _)
extractLoop(data, i, tempHex, reads) ==
    IF ~(i < FieldEnd) THEN [hex |-> tempHex, err |-> "nil", reads |-> reads]
    ELSE IF i + 2 > Len(data)
         THEN [hex |-> <<>>, err |-> "panic", reads |-> reads \cup {i, i + 1}]
    ELSE LET bytePair == <<data[i + 1], data[i + 2]>>
             byteVal  == ParseUint(bytePair, 16, 8)
             seen     == reads \cup {i, i + 1}
         IN  IF byteVal.err # "nil"
             THEN [hex |-> <<>>, err |-> "parse", reads |-> seen]
             ELSE extractLoop(data, i + 2, tempHex \o SprintfX(byteVal.val), seen)

extractAndConvertTemperature(data) ==
    IF Len(data) < MinDataLen
    THEN [hex |-> <<>>, err |-> "short", reads |-> {}]
    ELSE extractLoop(data, FieldStart, <<>>, {})

\* faulty variant: a 16-bit result
hexToDecimal_int16(hexStr) == ParseInt(hexStr, 16, 16)

hexToDecimal(hexStr) == ParseInt(hexStr, 16, 64)

\* the two low digits (the remainder modulo 256) and the rest (the quotient)
Low2(val) == IF Len(val) <= 2 THEN val ELSE SubSeq(val, Len(val) - 1, Len(val))

High(val) == IF Len(val) <= 2 THEN <<>> ELSE SubSeq(val, 1, Len(val) - 2)

\* faulty variant: the tenth truncated instead of rounded
FormatF1_trunc(dec) ==
    [neg |-> dec.neg, whole |-> NatOf(High(dec.val)),
     tenth |-> (NatOf(Low2(dec.val)) * 10) \div 256]

\* float64(v)/256 printed with %.1f: v is below 2^53 and the divisor a power
\* of two, so the quotient is exact; the verb rounds it to the nearest tenth,
\* an exact tie to the even digit.  The result is [-]<whole>.<tenth>.
FormatF1(dec) ==
    LET whole == NatOf(High(dec.val))
        low   == NatOf(Low2(dec.val))
        q     == (low * 10) \div 256
        r     == (low * 10) % 256
        up    == r > 128 \/ (r = 128 /\ q % 2 = 1)
        t     == IF up THEN q + 1 ELSE q
    IN  IF t = 10 THEN [neg |-> dec.neg, whole |-> whole + 1, tenth |-> 0]
        ELSE [neg |-> dec.neg, whole |-> whole, tenth |-> t]

----------------------------------------------------------------------------
(* The transport *)

\* what one SG_IO ioctl can leave behind: the errno of the system call and
\* the status fields of the header.  A failed system call leaves the header
\* as the program zero-initialised it.
IoctlOutcomes ==
    { r \in [errno : {0, 5}, status : {0, 2}, host_status : {0, DID_TIME_OUT}] :
        r.errno # 0 => (r.status = 0 /\ r.host_status = 0) }

Line(t) == [line |-> t, neg |-> FALSE, whole |-> 0, tenth |-> 0]

TempLine(f) == [line |-> "Max temperature since cartridge loaded",
                neg |-> f.neg, whole |-> f.whole, tenth |-> f.tenth]

\* faulty variants: one of the two checks left out
sendScsiCommand_noStatusCheck(r) ==
    IF r.errno # 0 THEN "command failed: errno" ELSE "nil"

sendScsiCommand_noErrnoCheck(r) ==
    IF r.status # 0 THEN "command failed with status" ELSE "nil"

\* the error sendScsiCommand returns for an ioctl outcome
sendScsiCommand(r) ==
    IF r.errno # 0 THEN "command failed: errno"
    ELSE IF r.status # 0 THEN "command failed with status"
    ELSE "nil"

\* the lines sendScsiCommand prints when verbose
scsiTrace(r) ==
    IF ~verbose THEN <<>>
    ELSE <<Line("Executing ioctl")>> \o
         (IF r.errno = 0 /\ r.status # 0
          THEN <<Line("Command failed with status"), Line("Sense data")>>
          ELSE <<>>)

Call(cmd, r, err) ==
    [cmd |-> cmd, errno |-> r.errno, status |-> r.status,
     host_status |-> r.host_status, err |-> err]

----------------------------------------------------------------------------
(* The run of main *)

NoDecimal == [err |-> "nil", neg |-> FALSE, val |-> <<>>]

NoResult == [hex |-> <<>>, err |-> "nil", reads |-> {}]

MainInit ==
    /\ verbose \in BOOLEAN
    /\ fileOpen = FALSE
    /\ deferred = <<>>
    /\ closedByDefer = FALSE
    /\ calls = <<>>
    /\ dataIn = <<>>
    /\ temperatureHex = <<>>
    /\ temperatureDecimal = NoDecimal
    /\ decoded = <<>>
    /\ stdout = <<>>
    /\ exitCode = -1
    /\ failure = "none"

Init ==
    /\ pc = "args"
    /\ argKind \in {"help", "badflag", "none", "device"}
    /\ MainInit
    /\ fnPc = "idle"
    /\ fnData = <<>>
    /\ fnRes = NoResult
    /\ fnDec = NoDecimal

\* faulty variant: the exit code dropped
osExit_zero(code) ==
    /\ pc' = "exited"
    /\ exitCode' = 0
    /\ UNCHANGED <<fileOpen, deferred, closedByDefer>>

\* os.Exit ends the process at once; deferred functions are not run
osExit(code) ==
    /\ pc' = "exited"
    /\ exitCode' = code
    /\ UNCHANGED <<fileOpen, deferred, closedByDefer>>

\* main returns: the deferred file.Close() runs, the process exits with 0
returnFromMain ==
    /\ pc' = "done"
    /\ exitCode' = 0
    /\ deferred' = <<>>
    /\ fileOpen' = IF deferred # <<>> THEN FALSE ELSE fileOpen
    /\ closedByDefer' = (deferred # <<>>)

\* flag.Parse and the two argument checks
ParseArgs ==
    /\ pc = "args"
    /\ IF argKind = "help" THEN osExit(0) /\ failure' = failure
       ELSE IF argKind = "badflag" THEN osExit(2) /\ failure' = "usage"
       ELSE IF argKind = "none" THEN osExit(1) /\ failure' = "usage"
       ELSE /\ pc' = "open"
            /\ UNCHANGED <<exitCode, failure, fileOpen, deferred, closedByDefer>>
    /\ UNCHANGED <<argKind, verbose, calls, dataIn, temperatureHex,
                   temperatureDecimal, decoded, stdout>>
    /\ UNCHANGED fnVars

\* os.OpenFile and defer file.Close()
OpenDevice ==
    /\ pc = "open"
    /\ \E ok \in BOOLEAN :
         IF ok
         THEN /\ fileOpen' = TRUE
              /\ deferred' = <<"file.Close">>
              /\ pc' = "send"
              /\ UNCHANGED <<closedByDefer, exitCode, failure, stdout>>
         ELSE /\ stdout' = Append(stdout, Line("Failed to open device"))
              /\ failure' = "open"
              /\ osExit(1)
    /\ UNCHANGED <<argKind, verbose, calls, dataIn, temperatureHex,
                   temperatureDecimal, decoded>>
    /\ UNCHANGED fnVars

\* Step 1
SendDiagnostic ==
    /\ pc = "send"
    /\ \E r \in IoctlOutcomes :
         LET err == sendScsiCommand(r) IN
         /\ calls' = Append(calls, Call("SEND DIAGNOSTIC", r, err))
         /\ IF err # "nil"
            THEN /\ stdout' = stdout
                      \o (IF verbose THEN <<Line("Sending SEND DIAGNOSTIC command")>> ELSE <<>>)
                      \o scsiTrace(r)
                      \o <<Line("Failed to send SEND DIAGNOSTIC command")>>
                 /\ failure' = "send"
                 /\ osExit(1)
            ELSE /\ stdout' = stdout
                      \o (IF verbose THEN <<Line("Sending SEND DIAGNOSTIC command")>> ELSE <<>>)
                      \o scsiTrace(r)
                      \o (IF verbose THEN <<Line("SEND DIAGNOSTIC command sent successfully.")>> ELSE <<>>)
                 /\ pc' = "receive"
                 /\ UNCHANGED <<exitCode, failure, fileOpen, deferred, closedByDefer>>
    /\ UNCHANGED <<argKind, verbose, dataIn, temperatureHex, temperatureDecimal, decoded>>
    /\ UNCHANGED fnVars

\* Step 2: dataIn is 68 zero bytes; a completed ioctl may have filled it
ReceiveDiagnostic ==
    /\ pc = "receive"
    /\ \E r \in IoctlOutcomes :
       \E page \in (IF r.errno = 0 THEN PagesOfLen(DATA_IN_LEN) ELSE {}) \cup {ZeroBytes(DATA_IN_LEN)} :
         LET err == sendScsiCommand(r) IN
         /\ dataIn' = page
         /\ calls' = Append(calls, Call("RECEIVE DIAGNOSTIC RESULTS", r, err))
         /\ IF err # "nil"
            THEN /\ stdout' = stdout
                      \o (IF verbose THEN <<Line("Sending RECEIVE DIAGNOSTIC command")>> ELSE <<>>)
                      \o scsiTrace(r)
                      \o <<Line("Failed to send RECEIVE DIAGNOSTIC command")>>
                 /\ failure' = "receive"
                 /\ osExit(1)
            ELSE /\ stdout' = stdout
                      \o (IF verbose THEN <<Line("Sending RECEIVE DIAGNOSTIC command")>> ELSE <<>>)
                      \o scsiTrace(r)
                      \o (IF verbose THEN <<Line("RECEIVE DIAGNOSTIC command sent successfully."),
                                            Line("Raw diagnostic data (hex)")>> ELSE <<>>)
                 /\ pc' = "extract"
                 /\ UNCHANGED <<exitCode, failure, fileOpen, deferred, closedByDefer>>
    /\ UNCHANGED <<argKind, verbose, temperatureHex, temperatureDecimal, decoded>>
    /\ UNCHANGED fnVars

\* Step 3
ExtractTemperature ==
    /\ pc = "extract"
    /\ LET res == extractAndConvertTemperature(dataIn) IN
       /\ decoded' = Append(decoded, "extractAndConvertTemperature")
       /\ IF res.err # "nil"
          THEN /\ stdout' = Append(stdout, Line("Error extracting temperature"))
               /\ failure' = "extract"
               /\ osExit(1)
               /\ UNCHANGED temperatureHex
          ELSE /\ temperatureHex' = res.hex
               /\ stdout' = stdout \o (IF verbose THEN <<Line("Max temperature (hex)")>> ELSE <<>>)
               /\ pc' = "convert"
               /\ UNCHANGED <<exitCode, failure, fileOpen, deferred, closedByDefer>>
    /\ UNCHANGED <<argKind, verbose, calls, dataIn, temperatureDecimal>>
    /\ UNCHANGED fnVars

\* Step 4
ConvertHex ==
    /\ pc = "convert"
    /\ LET res == hexToDecimal(temperatureHex) IN
       /\ decoded' = Append(decoded, "hexToDecimal")
       /\ IF res.err # "nil"
          THEN /\ stdout' = Append(stdout, Line("Error converting hex to decimal"))
               /\ failure' = "convert"
               /\ osExit(1)
               /\ UNCHANGED temperatureDecimal
          ELSE /\ temperatureDecimal' = res
               /\ stdout' = stdout \o (IF verbose THEN <<Line("Max temperature (decimal)")>> ELSE <<>>)
               /\ pc' = "report"
               /\ UNCHANGED <<exitCode, failure, fileOpen, deferred, closedByDefer>>
    /\ UNCHANGED <<argKind, verbose, calls, dataIn, temperatureHex>>
    /\ UNCHANGED fnVars

\* Step 5 and the return from main
Report ==
    /\ pc = "report"
    /\ stdout' = Append(stdout, TempLine(FormatF1(temperatureDecimal)))
    /\ returnFromMain
    /\ UNCHANGED <<argKind, verbose, calls, dataIn, temperatureHex,
                   temperatureDecimal, decoded, failure>>
    /\ UNCHANGED fnVars

Next ==
    \/ ParseArgs
    \/ OpenDevice
    \/ SendDiagnostic
    \/ ReceiveDiagnostic
    \/ ExtractTemperature
    \/ ConvertHex
    \/ Report

Spec == Init /\ [][Next]_vars

\* the run is scheduled until it exits: every enabled step is eventually taken
FairSpec == Spec /\ WF_vars(Next)

----------------------------------------------------------------------------
(* The decoding functions applied to arbitrary pages *)

ShortPages(n) == { ZeroBytes(n), [i \in 1..n |-> 48] }

FnLens == {0} \cup ((FieldEnd - MaxSlack) .. (FieldEnd + MaxSlack)) \cup {DATA_IN_LEN}

FnPages ==
    UNION { IF n < FieldEnd THEN ShortPages(n) ELSE PagesOfLen(n) : n \in FnLens }

FnInit ==
    /\ pc = "off"
    /\ argKind = "device"
    /\ MainInit
    /\ fnPc = "extract"
    /\ fnData \in FnPages
    /\ fnRes = NoResult
    /\ fnDec = NoDecimal

FnExtract ==
    /\ fnPc = "extract"
    /\ fnRes' = extractAndConvertTemperature(fnData)
    /\ fnPc' = IF fnRes'.err = "nil" THEN "convert" ELSE "returned"
    /\ UNCHANGED <<fnData, fnDec>>
    /\ UNCHANGED mainVars

FnConvert ==
    /\ fnPc = "convert"
    /\ fnDec' = hexToDecimal(fnRes.hex)
    /\ fnPc' = "returned"
    /\ UNCHANGED <<fnData, fnRes>>
    /\ UNCHANGED mainVars

FnNext == FnExtract \/ FnConvert

FnSpec == FnInit /\ [][FnNext]_vars

\* a run of main or an application of the decoding functions
AllSpec == (Init \/ FnInit) /\ [][Next \/ FnNext]_vars

----------------------------------------------------------------------------
(* Properties *)

Terminal == pc \in {"done", "exited"}

TempLines == { k \in 1..Len(stdout) : stdout[k].line = "Max temperature since cartridge loaded" }

CallSucceeded(c) == c.errno = 0 /\ c.status = 0

Opened == fileOpen \/ closedByDefer

FieldBytes(data) == { data[i + 1] : i \in FieldStart..(FieldEnd - 1) }

Rank(p) ==
    CASE p = "args" -> 0 [] p = "open" -> 1 [] p = "send" -> 2 [] p = "receive" -> 3
      [] p = "extract" -> 4 [] p = "convert" -> 5 [] p = "report" -> 6
      [] p = "done" -> 7 [] p = "exited" -> 7 [] OTHER -> 8

\* C1: once a transport call has reported a nonzero device status the run has
\* aborted: that call is the last one, the process has exited with a nonzero
\* code, no decode step has run and no temperature line is printed.
C1_NonzeroStatusAborts ==
    \A k \in 1..Len(calls) :
        calls[k].status # 0 =>
            /\ k = Len(calls)
            /\ pc = "exited"
            /\ exitCode # 0
            /\ decoded = <<>>
            /\ TempLines = {}

C1_Witness ==
    /\ Len(calls) = 2
    /\ calls[2].status # 0
    /\ pc = "exited"

C2_Order ==
    /\ Len(calls) <= 2
    /\ (Len(calls) >= 1 => calls[1].cmd = "SEND DIAGNOSTIC")
    /\ (Len(calls) = 2 => calls[2].cmd = "RECEIVE DIAGNOSTIC RESULTS" /\ CallSucceeded(calls[1]))
    /\ (decoded # <<>> => Len(calls) = 2 /\ CallSucceeded(calls[2]))
    /\ (Len(decoded) = 2 => decoded = <<"extractAndConvertTemperature", "hexToDecimal">>)
    /\ Len(decoded) <= 2
    /\ (failure # "none" => pc = "exited" /\ exitCode # 0)

C2_Step ==
    /\ ~Terminal
    /\ (pc' = "exited" \/ Rank(pc') = Rank(pc) + 1)
    /\ Len(calls') <= Len(calls) + 1
    /\ Len(decoded') <= Len(decoded) + 1
    /\ (failure' # "none" => pc' = "exited")

\* C2: the run moves along args, open, send, receive, extract, convert,
\* report, done, one stage at a time and never back; each command is issued
\* at most once, RECEIVE only after SEND succeeded, decoding only after
\* RECEIVE succeeded; a failure ends the run, and nothing happens after the
\* run has ended.
C2_FixedChain == [](C2_Order) /\ [][C2_Step]_vars

C2_Witness ==
    /\ pc = "done"
    /\ Len(calls) = 2
    /\ Len(decoded) = 2
    /\ TempLines # {}

\* C3: when the run has ended and the device handle had been opened, the
\* deferred file.Close() has released it.
C3_ReleasedOnEveryExit ==
    (Terminal /\ Opened) => (closedByDefer /\ ~fileOpen)

\* C4: on a page of at least 30 bytes whose bytes 22..29 are hexadecimal
\* digits, extractAndConvertTemperature succeeds with exactly 4 upper-case
\* hexadecimal digits.
C4_FourUpperHexChars ==
    (/\ fnPc # "extract"
     /\ Len(fnData) >= 30
     /\ \A c \in FieldBytes(fnData) : IsHexChar(c))
    => /\ fnRes.err = "nil"
       /\ Len(fnRes.hex) = 4
       /\ \A k \in 1..Len(fnRes.hex) : IsUpperHexChar(fnRes.hex[k])

\* C5: a run that failed has exited with a nonzero code and printed no
\* temperature line, and so has every ended run with a transport call that
\* did not succeed; a run that opened the device and exited with code 0 has
\* printed exactly one temperature line.
C5_ExitCodes ==
    /\ (failure # "none" =>
            pc = "exited" /\ exitCode \notin {0, -1} /\ TempLines = {})
    /\ ((\E k \in 1..Len(calls) : ~CallSucceeded(calls[k])) =>
            pc = "exited" /\ exitCode \notin {0, -1} /\ TempLines = {})
    /\ (Terminal /\ exitCode = 0 /\ Opened => Cardinality(TempLines) = 1)
    /\ (Terminal /\ exitCode # 0 => failure # "none")

C5_Witness ==
    /\ pc = "exited"
    /\ failure = "extract"
    /\ Len(calls) = 2

\* C6: on a page shorter than 30 bytes extractAndConvertTemperature fails
\* with the length error, returns no string and has read no byte; on no page
\* does it access an index at or beyond the length of the page.
C6_ShortPageRejected ==
    fnPc # "extract" =>
        /\ (Len(fnData) < 30 =>
                fnRes.err = "short" /\ fnRes.hex = <<>> /\ fnRes.reads = {})
        /\ \A i \in fnRes.reads : i < Len(fnData)

C6_Witness ==
    /\ fnPc = "returned"
    /\ Len(fnData) = 29
    /\ fnRes.err = "short"

\* C7: on a page of at least 30 bytes with a byte of 22..29 that is not a
\* hexadecimal digit, extractAndConvertTemperature returns the parse error
\* and no string, and no value is derived from the page.
C7_NonHexRejected ==
    (/\ fnPc # "extract"
     /\ Len(fnData) >= 30
     /\ \E c \in FieldBytes(fnData) : ~IsHexChar(c))
    => /\ fnRes.err = "parse"
       /\ fnRes.hex = <<>>
       /\ fnPc = "returned"
       /\ fnDec = NoDecimal

C7_Witness ==
    /\ fnPc = "returned"
    /\ Len(fnData) = DATA_IN_LEN
    /\ IsHexChar(fnData[FieldStart + 1])
    /\ ~IsHexChar(fnData[FieldStart + 2])
    /\ fnRes.err = "parse"

Hex0841 == <<48, 56, 52, 49>>

EndToEnd0841 ==
    /\ pc = "done"
    /\ Len(calls) = 2
    /\ calls[1].status = 0
    /\ calls[2].status = 0
    /\ Len(dataIn) = DATA_IN_LEN
    /\ temperatureHex = Hex0841

\* C8 as stated: the run that decodes "0841" reports 8.2
C8_Reports8point2 ==
    EndToEnd0841 =>
        /\ NatOf(temperatureDecimal.val) = 2113
        /\ stdout[Len(stdout)] = TempLine([neg |-> FALSE, whole |-> 8, tenth |-> 2])

\* C8: the run that decodes "0841" (raw value 2113) reports 8.3: the raw
\* value divided by 256, rounded to the nearest tenth.
C8_Reports8point3 ==
    EndToEnd0841 =>
        /\ NatOf(temperatureDecimal.val) = 2113
        /\ stdout[Len(stdout)] = TempLine([neg |-> FALSE, whole |-> 8, tenth |-> 3])

C8_Witness == EndToEnd0841 /\ Cardinality(TempLines) = 1

\* C9: a transport call that timed out made sendScsiCommand return an error;
\* it is the last call of the run, which exited with a nonzero code without
\* a decode step or a temperature line.
C9_TimeoutAborts ==
    \A k \in 1..Len(calls) :
        calls[k].host_status = DID_TIME_OUT =>
            /\ calls[k].err # "nil"
            /\ k = Len(calls)
            /\ pc = "exited"
            /\ exitCode # 0
            /\ decoded = <<>>
            /\ TempLines = {}

\* C10: a string that extractAndConvertTemperature returned is not empty and
\* hexToDecimal converts it without error to a non-negative value; no run
\* fails in the conversion step.
C10_ConversionNeverFails ==
    /\ failure # "convert"
    /\ ((pc \in {"convert", "report", "done"}) =>
            /\ temperatureHex # <<>>
            /\ hexToDecimal(temperatureHex).err = "nil"
            /\ ~hexToDecimal(temperatureHex).neg)
    /\ ((pc \in {"report", "done"}) =>
            temperatureDecimal.err = "nil" /\ ~temperatureDecimal.neg)
    /\ ((fnPc = "convert") => fnRes.hex # <<>>)
    /\ ((fnPc = "returned" /\ fnRes.err = "nil") =>
            fnDec.err = "nil" /\ ~fnDec.neg)

C10_Witness ==
    /\ fnPc = "returned"
    /\ fnRes.err = "nil"
    /\ Len(fnRes.hex) = 8
    /\ fnRes.hex[1] = 70

====
